---- MODULE Spec2Model ----
(***************************************************************************)
(* Workplane hit-testing and drawing of CAD_Sketcher.                      *)
(*                                                                         *)
(*   src/io.py                              mesh loading                   *)
(*   src/viewport_drawing/geo.py            mesh -> coords/indices, groups *)
(*   src/viewport_drawing/drawing.py        DrawnMesh (cached, scaled)     *)
(*   src/viewport_drawing/debug_operators.py  modal operator on DrawnMesh  *)
(*   src/mesh_generation.py                 DrawingMesh (earlier revision) *)
(*   src/debug_operators.py                 modal operator on DrawingMesh  *)
(*                                                                         *)
(* Conventions.                                                            *)
(*  - Python's None is the empty tuple; a present value v is <<v>>.        *)
(*  - Lengths are fixed-point numbers in quarters: the float x is the      *)
(*    integer 4*x.  View distances are whole numbers, so view_distance/2   *)
(*    and scaler/2 are exact.                                              *)
(*  - The world is one-dimensional: a vertex has one coordinate, a face    *)
(*    covers the interval spanned by its vertices, and a ray is the world  *)
(*    coordinate the cursor unprojects to.                                 *)
(*  - Face and vertex indices are 1-based (Python's index i is i+1).       *)
(***************************************************************************)
EXTENDS Integers, Sequences, FiniteSets, TLC

(***************************************************************************)
(* Bounds                                                                  *)
(***************************************************************************)
\* faces of the asset mesh
NumFaces == 2
\* largest face_map tag an asset face can carry (-1 is "no face map")
MaxTag == 3
\* largest view distance the viewport reports; the distances tried are 0
\* and every whole number from just under twice the minimum scale
MaxViewDistance == 7
\* cursor positions are the world coordinates 0, 7/4, 14/4, ...
MaxCursor == 3
\* view-distance changes followed within one session
MaxChanges == 2
\* mesh datablocks already in the host's store before the operator starts
MaxPreexisting == 0

(***************************************************************************)
(* Python values                                                           *)
(***************************************************************************)
None == <<>>
Some(v) == <<v>>
Get(o) == o[1]

Fixed(n) == 4 * n
Half(x) == x \div 2
Mul(a, b) == (a * b) \div 4

Min(S) == CHOOSE x \in S : \A y \in S : x <= y
Max(S) == CHOOSE x \in S : \A y \in S : x >= y
PyMax(a, b) == IF b > a THEN b ELSE a

\* the floor of the scale factor (drawing.py, line 150)
MinimumScale == 3

Tags == -1 .. MaxTag
ViewDistances == {Fixed(d) : d \in {0} \cup (2 * MinimumScale - 1 .. MaxViewDistance)}
Cursors == {7 * i : i \in 0 .. MaxCursor}
EventTypes == {"MOUSEMOVE", "LEFTMOUSE", "RIGHTMOUSE", "ESC", "MIDDLEMOUSE"}

(***************************************************************************)
(* Meshes                                                                  *)
(***************************************************************************)
\* The mesh datablock stored in the asset file: face k is a triangle on
\* its own three vertices and covers the interval [2k-1, 2k].
AssetMesh(tags) ==
    [verts |-> [i \in 1 .. 3 * Len(tags) |->
                   IF i % 3 = 1 THEN Fixed(2 * ((i + 2) \div 3) - 1)
                                ELSE Fixed(2 * ((i + 2) \div 3))],
     faces |-> [k \in 1 .. Len(tags) |->
                   [verts |-> <<3 * k - 2, 3 * k - 1, 3 * k>>,
                    face_map |-> tags[k]]]]

Assets == {AssetMesh(t) : t \in [1 .. NumFaces -> Tags]}

(***************************************************************************)
(* src/viewport_drawing/geo.py                                             *)
(***************************************************************************)
RECURSIVE Concat(_)
Concat(ss) == IF ss = <<>> THEN <<>> ELSE Head(ss) \o Concat(Tail(ss))

\* vert.index is 0-based
face_vert_indices(face) == [j \in 1 .. Len(face.verts) |-> face.verts[j] - 1]

\* points_and_faces indexing the filtered faces by their vertices' indices
\* in the mesh, as the unfiltered branch does
points_and_faces_shared(bm, face_filter) ==
    IF face_filter = None
    THEN [coords |-> bm.verts,
          indices |-> [k \in 1 .. Len(bm.faces) |-> face_vert_indices(bm.faces[k])]]
    ELSE LET faces == Get(face_filter)
         IN [coords |-> Concat([k \in 1 .. Len(faces) |->
                           [j \in 1 .. Len(faces[k].verts) |-> bm.verts[faces[k].verts[j]]]]),
             indices |-> [k \in 1 .. Len(faces) |-> face_vert_indices(faces[k])]]

\* face_filter is None or Some(sequence of faces); zip(face_filter,
\* count(step=3)) pairs the k-th face with 3(k-1)
points_and_faces(bm, face_filter) ==
    IF face_filter = None
    THEN [coords |-> bm.verts,
          indices |-> [k \in 1 .. Len(bm.faces) |-> face_vert_indices(bm.faces[k])]]
    ELSE LET faces == Get(face_filter)
         IN [coords |-> Concat([k \in 1 .. Len(faces) |->
                           [j \in 1 .. Len(faces[k].verts) |-> bm.verts[faces[k].verts[j]]]]),
             indices |-> [k \in 1 .. Len(faces) |->
                           <<3 * (k - 1), 3 * (k - 1) + 1, 3 * (k - 1) + 2>>]]

face_map_lookup(bm, face_id) == bm.faces[face_id].face_map

\* faces_by_map_id yielding the faces of every group up to the one asked for
faces_by_map_id_upto(bm, face_map_id) ==
    LET Keep(face) == face.face_map <= face_map_id
    IN SelectSeq(bm.faces, Keep)

faces_by_map_id(bm, face_map_id) ==
    LET Keep(face) == face.face_map = face_map_id
    IN SelectSeq(bm.faces, Keep)

(***************************************************************************)
(* src/io.py                                                               *)
(***************************************************************************)
\* bpy.data.libraries.load appends the named mesh under the first free
\* datablock name: "workplanes" is 0, "workplanes.00n" is n.
FreshName(store) == Min({n \in 0 .. Cardinality(store) : n \notin store})

load_mesh(store) ==
    LET name == FreshName(store)
    IN [store |-> store \cup {name}, mesh |-> name]

\* the body of the with-block runs between enter and exit
read_external_mesh_enter(store) ==
    LET name == FreshName(store)
    IN [store |-> store \cup {name}, data_to |-> name]

read_external_mesh_exit(store, data_to) == store \ {data_to}

\* bm.from_mesh copies the datablock's geometry into an independent BMesh;
\* is_valid is BMesh.is_valid, which free() clears
load_as_bmesh(store, content) ==
    LET entered == read_external_mesh_enter(store)
        loaded == load_mesh(entered.store)
        bm == [verts |-> content.verts, faces |-> content.faces, is_valid |-> TRUE]
    IN [store |-> read_external_mesh_exit(loaded.store, entered.data_to),
        bm |-> bm]

(***************************************************************************)
(* src/viewport_drawing/drawing.py                                         *)
(***************************************************************************)
RaycastResult(location, index) == [location |-> location, index |-> index]
RaycastFailed(r) == r.location = None

MouseHoverResult(face_id, face_map) ==
    [face_id |-> face_id, face_map |-> face_map, vert_id |-> None, edge_id |-> None]
HoverFailed(r) ==
    r.face_id = None /\ r.face_map = None /\ r.vert_id = None /\ r.edge_id = None

\* bmesh.ops.triangulate: a face on n vertices becomes the fan of n-2
\* triangles on its first vertex, each keeping the face's tag
FanOf(face) ==
    [t \in 1 .. Len(face.verts) - 2 |->
        [verts |-> <<face.verts[1], face.verts[t + 1], face.verts[t + 2]>>,
         face_map |-> face.face_map]]
triangulate(bm) ==
    [bm EXCEPT !.faces = Concat([k \in 1 .. Len(bm.faces) |-> FanOf(bm.faces[k])])]

\* bmesh.ops.duplicate of all verts and faces, then reverse_faces on the copies
duplicate_reversed(bm) ==
    LET nv == Len(bm.verts)
        Back(face) == [verts |-> <<face.verts[3] + nv, face.verts[2] + nv, face.verts[1] + nv>>,
                       face_map |-> face.face_map]
    IN [bm EXCEPT !.verts = bm.verts \o bm.verts,
                  !.faces = bm.faces \o [k \in 1 .. Len(bm.faces) |-> Back(bm.faces[k])]]

\* __post_init__ without the double_sided branch
post_init_single(bm, double_sided) == triangulate(bm)

post_init(bm, double_sided) ==
    IF double_sided THEN duplicate_reversed(triangulate(bm)) ELSE triangulate(bm)

\* copy of bm with every vertex scaled by scaler
xformed_bm_of_full(bm, scaler_) ==
    [bm EXCEPT !.verts = [i \in 1 .. Len(bm.verts) |-> Mul(bm.verts[i], scaler_)]]

\* copy of bm with every vertex scaled by scaler / 2
xformed_bm_of(bm, scaler_) ==
    [bm EXCEPT !.verts = [i \in 1 .. Len(bm.verts) |-> Mul(bm.verts[i], Half(scaler_))]]

\* BVHTree.FromBMesh keeps its own copy of the triangles
bvh_of(xbm) ==
    [k \in 1 .. Len(xbm.faces) |-> [j \in 1 .. 3 |-> xbm.verts[xbm.faces[k].verts[j]]]]

Covers(tri, x) ==
    /\ Min({tri[j] : j \in 1 .. 3}) <= x
    /\ x <= Max({tri[j] : j \in 1 .. 3})

\* the nearest triangle on the ray; among the triangles covering x the
\* tree reports the first
ray_cast(tree, x) ==
    LET hits == {k \in 1 .. Len(tree) : Covers(tree[k], x)}
    IN IF hits = {} THEN RaycastResult(None, None)
       ELSE RaycastResult(Some(x), Some(Min(hits)))

batch_for_shader(content) == [pos |-> content.coords, indices |-> content.indices]

\* the table with the names of groups 0 and 1 exchanged
workplane_face_maps_exchanged == [g \in {0, 1, 2} |-> <<"xy", "xz", "yz">>[g + 1]]

workplane_face_maps == [g \in {0, 1, 2} |-> <<"xz", "xy", "yz">>[g + 1]]

\* DrawnMesh(bm, double_sided) with the dataclass defaults; bvh_builds,
\* vd_changes and builds_since_change count BVHTree.FromBMesh calls and the
\* view-distance changes draw has seen; frees, freed_twice and used_freed
\* follow the free() calls on the transformed copies
DrawnMesh(bm, double_sided) ==
    [bm |-> post_init(bm, double_sided),
     double_sided |-> double_sided,
     scaler |-> Fixed(1),
     view_distance |-> 0,
     xformed_bm |-> None,
     bvh |-> None,
     passive_batch |-> None,
     passive_shader |-> None,
     bvh_builds |-> 0,
     vd_changes |-> 0,
     builds_since_change |-> 0,
     frees |-> 0,
     freed_twice |-> FALSE,
     used_freed |-> FALSE]

\* cached properties: the getter returns self with the value cached
_xformed_bm(self) ==
    IF self.xformed_bm # None THEN self
    ELSE [self EXCEPT !.xformed_bm = Some(xformed_bm_of(self.bm, self.scaler))]

\* self._xformed_bm read for its vertices and faces; used_freed notes a
\* read of a copy that free() has been called on
read_xformed_bm(self) ==
    LET s1 == _xformed_bm(self)
    IN [s1 EXCEPT !.used_freed = @ \/ ~Get(s1.xformed_bm).is_valid]

\* self._xformed_bm.free(), given self with the copy cached; frees counts
\* the calls and freed_twice notes a call on a copy already freed
free(self) ==
    [self EXCEPT !.xformed_bm = Some([Get(@) EXCEPT !.is_valid = FALSE]),
                 !.frees = @ + 1,
                 !.freed_twice = @ \/ ~Get(self.xformed_bm).is_valid]

\* _bvh as a plain property: a tree is built at every access
_bvh_uncached(self) ==
    LET s1 == read_xformed_bm(self)
    IN [s1 EXCEPT !.bvh = Some(bvh_of(Get(s1.xformed_bm))),
                  !.bvh_builds = @ + 1,
                  !.builds_since_change = @ + 1]

_bvh(self) ==
    IF self.bvh # None THEN self
    ELSE LET s1 == read_xformed_bm(self)
         IN [s1 EXCEPT !.bvh = Some(bvh_of(Get(s1.xformed_bm))),
                       !.bvh_builds = @ + 1,
                       !.builds_since_change = @ + 1]

_passive_shader(self) ==
    IF self.passive_shader # None THEN self
    ELSE [self EXCEPT !.passive_shader = Some("3D_UNIFORM_COLOR")]

_passive_batch(self) ==
    IF self.passive_batch # None THEN self
    ELSE LET s1 == read_xformed_bm(self)
             s2 == _passive_shader(s1)
         IN [s2 EXCEPT !.passive_batch =
                Some(batch_for_shader(points_and_faces(Get(s1.xformed_bm), None)))]

\* the batch of the faces given, built on the transformed mesh
_active_batch(self, faces) ==
    LET s1 == read_xformed_bm(self)
    IN [self |-> _passive_shader(s1),
        batch |-> batch_for_shader(points_and_faces(Get(s1.xformed_bm), Some(faces)))]

_ray_from_screen(self, xy) ==
    LET s1 == _bvh(self)
    IN [self |-> s1, result |-> ray_cast(Get(s1.bvh), xy)]

\* ray_from_mouse reporting a miss in-band, as face -1 of group -1
ray_from_mouse_sentinel(self, xy, face_id, face_map) ==
    LET cast == _ray_from_screen(self, xy)
        s2 == read_xformed_bm(cast.self)
    IN IF RaycastFailed(cast.result)
       THEN [self |-> cast.self, result |-> MouseHoverResult(Some(-1), Some(-1))]
       ELSE [self |-> s2,
             result |-> MouseHoverResult(
                 cast.result.index,
                 Some(face_map_lookup(Get(s2.xformed_bm), Get(cast.result.index))))]

ray_from_mouse(self, xy, face_id, face_map) ==
    LET cast == _ray_from_screen(self, xy)
        s2 == read_xformed_bm(cast.self)
    IN IF RaycastFailed(cast.result)
       THEN [self |-> cast.self, result |-> MouseHoverResult(None, None)]
       ELSE [self |-> IF face_map THEN s2 ELSE cast.self,
             result |-> MouseHoverResult(
                 IF face_id THEN cast.result.index ELSE None,
                 IF face_map
                 THEN Some(face_map_lookup(Get(s2.xformed_bm), Get(cast.result.index)))
                 ELSE None)]

\* reading self._xformed_bm builds the copy when none is cached, so free()
\* and the first del never raise; the first del that finds nothing cached
\* raises AttributeError and the remaining dels are skipped
\* _clear_cache without `del self._xformed_bm`: the freed copy stays cached
_clear_cache_keeping(self) ==
    LET s2 == free(_xformed_bm(self))
    IN IF s2.passive_batch = None THEN s2
       ELSE LET s3 == [s2 EXCEPT !.passive_batch = None]
            IN IF s3.bvh = None THEN s3 ELSE [s3 EXCEPT !.bvh = None]

_clear_cache(self) ==
    LET s1 == free(_xformed_bm(self))
        s2 == [s1 EXCEPT !.xformed_bm = None]
    IN IF s2.passive_batch = None THEN s2
       ELSE LET s3 == [s2 EXCEPT !.passive_batch = None]
            IN IF s3.bvh = None THEN s3 ELSE [s3 EXCEPT !.bvh = None]

Scale(view_distance_) == PyMax(Fixed(MinimumScale), Half(view_distance_))

\* draw clearing the cache at every frame, rescaling only after a change
draw_rescale_clearing(self, view_distance_) ==
    IF self.view_distance # view_distance_
    THEN LET s1 == [self EXCEPT !.view_distance = view_distance_,
                                !.vd_changes = @ + 1,
                                !.builds_since_change = 0]
             s2 == _clear_cache(s1)
         IN [s2 EXCEPT !.scaler = Scale(s2.view_distance)]
    ELSE _clear_cache(self)

\* lines 144-150 of draw
draw_rescale(self, view_distance_) ==
    IF self.view_distance # view_distance_
    THEN LET s1 == [self EXCEPT !.view_distance = view_distance_,
                                !.vd_changes = @ + 1,
                                !.builds_since_change = 0]
             s2 == _clear_cache(s1)
         IN [s2 EXCEPT !.scaler = Scale(s2.view_distance)]
    ELSE self

\* lines 152-155 of draw
draw_passive(self) == _passive_batch(_passive_shader(self))

\* lines 157-164 of draw: None when nothing is hovered, else the batch drawn
draw_active(self, active_face_maps_) ==
    IF active_face_maps_ = None THEN [self |-> self, batch |-> None]
    ELSE LET ids == Get(active_face_maps_)
             s1 == read_xformed_bm(self)
             faces == Concat([i \in 1 .. Len(ids) |->
                                 faces_by_map_id(Get(s1.xformed_bm), ids[i])])
             built == _active_batch(s1, faces)
         IN [self |-> built.self, batch |-> Some(built.batch)]

(***************************************************************************)
(* State                                                                   *)
(***************************************************************************)
VARIABLES
    asset,            \* content of the mesh "workplanes" in workplanes.blend
    meshes,           \* bpy.data.meshes: names of the datablocks present
    meshes_before,    \* bpy.data.meshes when load_as_bmesh was entered
    draw_handlers,    \* handles registered with SpaceView3D
    phase,            \* "new", "init", "running", "finished", "cancelled", "raised"
    workplanes_mesh,  \* operator.workplanes_mesh
    draw_handle,      \* operator.draw_handle
    mouse_xy,         \* operator.mouse_xy
    active_face_maps, \* operator.active_face_maps
    result,           \* the workplane name execute printed
    highlight_batch,  \* the highlight batch the latest draw call drew
    last,             \* the latest handler call and how it ended
    handle,           \* operator.handle           (src/debug_operators.py)
    highlight_faces,  \* operator.highlight_faces  (src/debug_operators.py)
    active_face_map,  \* operator.active_face_map  (src/debug_operators.py)
    probe,            \* the first hit test since the view distance last changed
    moved,            \* the hover state the latest pointer-move produced
    geo_bm,           \* a mesh after __post_init__, for the functions of geo.py
    geo_out           \* the latest call of a function of geo.py and its outcome

vars == <<asset, meshes, meshes_before, draw_handlers, phase, workplanes_mesh,
          draw_handle, mouse_xy, active_face_maps, result, highlight_batch, last,
          handle, highlight_faces, active_face_map, probe, moved, geo_bm, geo_out>>

\* the fields of the operator of src/debug_operators.py
legacy_vars == <<handle, highlight_faces, active_face_map>>
\* the fields of the operator of src/viewport_drawing/debug_operators.py
\* and what is remembered of its hit tests
viewport_vars == <<draw_handle, active_face_maps, probe, moved>>
\* the mesh and the call of the specification of geo.py
geo_vars == <<geo_bm, geo_out>>

\* no hit test remembered; on is whether hit tests are remembered at all
NoProbe(on) == [on |-> on, xy |-> None, hover |-> None, repeated |-> FALSE]

\* the probe after a hit test at xy returned hover_result: the first one
\* since the last view-distance change is kept, a later one at the same
\* position is noted
Probed(probe_, xy, hover_result) ==
    IF ~probe_.on THEN probe_
    ELSE IF probe_.xy = None
    THEN [probe_ EXCEPT !.xy = Some(xy), !.hover = Some(hover_result)]
    ELSE IF probe_.xy = Some(xy) THEN [probe_ EXCEPT !.repeated = TRUE]
    ELSE probe_

\* a handler call: its name, the event type, the value returned, the
\* exception that left it, and the locals of the hit test it ran
Call(name, type, ret, exc, ray, hover) ==
    [call |-> name, type |-> type, ret |-> ret, exc |-> exc, ray |-> ray, hover |-> hover]

\* the call of a function of geo.py: its name, its argument, the faces, the
\* coordinates and the indices it returned, and the exception that left it
GeoCall(op, arg, faces, coords, indices, exc) ==
    [op |-> op, arg |-> arg, faces |-> faces, coords |-> coords,
     indices |-> indices, exc |-> exc]

\* the handle draw_handler_add returns
Handle == "draw_handler"

\* nothing constructed yet
Blank ==
    /\ meshes \in {0 .. n - 1 : n \in 0 .. MaxPreexisting}
    /\ meshes_before = None
    /\ draw_handlers = {}
    /\ phase = "new"
    /\ workplanes_mesh = None
    /\ mouse_xy = None
    /\ result = None
    /\ highlight_batch = None
    /\ last = Call("none", None, None, None, None, None)
    /\ draw_handle = None
    /\ active_face_maps = None
    /\ handle = None
    /\ highlight_faces = None
    /\ active_face_map = None
    /\ moved = None
    /\ geo_bm = None
    /\ geo_out = GeoCall("none", None, <<>>, <<>>, <<>>, None)

Start ==
    /\ asset \in Assets
    /\ probe = NoProbe(FALSE)
    /\ Blank

Init == Start

(***************************************************************************)
(* src/viewport_drawing/debug_operators.py                                 *)
(***************************************************************************)
\* __init__: DrawnMesh.from_file(blend_file, "workplanes") with the
\* default double_sided = False of from_file
__init__ ==
    /\ phase = "new"
    /\ LET loaded == load_as_bmesh(meshes, asset)
       IN /\ meshes_before' = Some(meshes)
          /\ meshes' = loaded.store
          /\ workplanes_mesh' = Some(DrawnMesh(loaded.bm, FALSE))
    /\ draw_handle' = None
    /\ mouse_xy' = None
    /\ active_face_maps' = None
    /\ probe' = NoProbe(probe.on)
    /\ moved' = None
    /\ phase' = "init"
    /\ last' = Call("__init__", None, None, None, None, None)
    /\ UNCHANGED <<asset, draw_handlers, result, highlight_batch>>
    /\ UNCHANGED legacy_vars
    /\ UNCHANGED geo_vars

invoke ==
    /\ phase = "init"
    /\ draw_handle' = Some(Handle)
    /\ draw_handlers' = draw_handlers \cup {Handle}
    /\ phase' = "running"
    /\ last' = Call("invoke", None, Some("RUNNING_MODAL"), None, None, None)
    /\ UNCHANGED <<asset, meshes, meshes_before, workplanes_mesh, mouse_xy,
                   active_face_maps, result, highlight_batch, probe, moved>>
    /\ UNCHANGED legacy_vars
    /\ UNCHANGED geo_vars

\* _rollover_detect: the hover state after the hit test at xy
_rollover_detect(self, xy) ==
    LET hit == ray_from_mouse(self, xy, TRUE, TRUE)
    IN [self |-> hit.self,
        ray |-> _ray_from_screen(self, xy).result,
        hover_result |-> hit.result,
        active_face_maps |-> IF ~HoverFailed(hit.result)
                             THEN Some(<<Get(hit.result.face_map)>>)
                             ELSE None]

\* execute: the name printed, None when the lookup raises KeyError
execute(active_face_maps_) ==
    LET id == Get(active_face_maps_)[1]
    IN IF id \in DOMAIN workplane_face_maps THEN Some(workplane_face_maps[id]) ELSE None

\* modal on a MOUSEMOVE event; raises is whether the viewport unprojection
\* of _ray_from_screen (line 186) throws
modal_mousemove(x, raises) ==
    /\ mouse_xy' = Some(x)
    /\ IF raises
       THEN /\ phase' = "raised"
            /\ last' = Call("modal", Some("MOUSEMOVE"), None, Some("RuntimeError"), None, None)
            /\ moved' = None
            /\ UNCHANGED <<workplanes_mesh, active_face_maps, probe>>
       ELSE LET det == _rollover_detect(Get(workplanes_mesh), x)
            IN /\ workplanes_mesh' = Some(det.self)
               /\ active_face_maps' = det.active_face_maps
               /\ moved' = det.active_face_maps
               /\ probe' = Probed(probe, x, det.hover_result)
               /\ phase' = "running"
               /\ last' = Call("modal", Some("MOUSEMOVE"), Some("RUNNING_MODAL"), None,
                               Some(det.ray), Some(det.hover_result))
    /\ UNCHANGED <<draw_handlers, result>>

\* modal on LEFTMOUSE while something is hovered
modal_confirm ==
    LET name == execute(active_face_maps)
    IN /\ draw_handlers' = draw_handlers \ {Get(draw_handle)}
       /\ IF name # None
          THEN /\ result' = name
               /\ phase' = "finished"
               /\ last' = Call("modal", Some("LEFTMOUSE"), Some("FINISHED"), None, None, None)
          ELSE /\ result' = result
               /\ phase' = "raised"
               /\ last' = Call("modal", Some("LEFTMOUSE"), None, Some("KeyError"), None, None)
       /\ UNCHANGED <<workplanes_mesh, mouse_xy, active_face_maps, probe, moved>>

modal_cancel(type) ==
    /\ draw_handlers' = draw_handlers \ {Get(draw_handle)}
    /\ phase' = "cancelled"
    /\ last' = Call("modal", Some(type), Some("CANCELLED"), None, None, None)
    /\ UNCHANGED <<workplanes_mesh, mouse_xy, active_face_maps, result, probe, moved>>

\* the final else of modal dropping the hover state
modal_other_unhover(type) ==
    /\ last' = Call("modal", Some(type), Some("PASS_THROUGH"), None, None, None)
    /\ active_face_maps' = None
    /\ UNCHANGED <<draw_handlers, phase, workplanes_mesh, mouse_xy, result, probe, moved>>

\* the final else of modal falling through to the RUNNING_MODAL return
modal_other_running(type) ==
    /\ last' = Call("modal", Some(type), Some("RUNNING_MODAL"), None, None, None)
    /\ UNCHANGED <<draw_handlers, phase, workplanes_mesh, mouse_xy, active_face_maps, result,
                   probe, moved>>

modal_other(type) ==
    /\ last' = Call("modal", Some(type), Some("PASS_THROUGH"), None, None, None)
    /\ UNCHANGED <<draw_handlers, phase, workplanes_mesh, mouse_xy, active_face_maps, result,
                   probe, moved>>

modal(type, x, raises) ==
    /\ phase = "running"
    /\ IF type = "MOUSEMOVE" THEN modal_mousemove(x, raises)
       ELSE IF type = "LEFTMOUSE" /\ active_face_maps # None THEN modal_confirm
       ELSE IF type \in {"RIGHTMOUSE", "ESC"} THEN modal_cancel(type)
       ELSE modal_other(type)
    /\ UNCHANGED <<asset, meshes, meshes_before, draw_handle, highlight_batch>>
    /\ UNCHANGED legacy_vars
    /\ UNCHANGED geo_vars

\* the draw handler, called by the viewport while it is registered;
\* raises is whether the GPU draw of the passive batch (line 155) throws.
\* Once modal has raised, the host has freed the operator while the handler
\* is still registered, and reading operator.active_face_maps (line 157)
\* raises ReferenceError.
draw(view_distance_, raises) ==
    /\ draw_handle # None
    /\ Get(draw_handle) \in draw_handlers
    /\ LET self == Get(workplanes_mesh)
       IN self.view_distance # view_distance_ => self.vd_changes < MaxChanges
    /\ LET s1 == draw_passive(draw_rescale(Get(workplanes_mesh), view_distance_))
           active == draw_active(s1, active_face_maps)
       IN IF raises
          THEN /\ workplanes_mesh' = Some(s1)
               /\ highlight_batch' = None
               /\ last' = Call("draw", None, None, Some("RuntimeError"), None, None)
          ELSE IF phase = "raised"
          THEN /\ workplanes_mesh' = Some(s1)
               /\ highlight_batch' = None
               /\ last' = Call("draw", None, None, Some("ReferenceError"), None, None)
          ELSE /\ workplanes_mesh' = Some(active.self)
               /\ highlight_batch' = active.batch
               /\ last' = Call("draw", None, None, None, None, None)
    /\ probe' = IF Get(workplanes_mesh).view_distance # view_distance_ THEN NoProbe(probe.on) ELSE probe
    /\ UNCHANGED <<asset, meshes, meshes_before, draw_handlers, phase, draw_handle,
                   mouse_xy, active_face_maps, result, moved>>
    /\ UNCHANGED legacy_vars
    /\ UNCHANGED geo_vars

Next ==
    \/ __init__
    \/ invoke
    \/ \E type \in EventTypes, x \in Cursors, raises \in BOOLEAN : modal(type, x, raises)
    \/ \E d \in ViewDistances, raises \in BOOLEAN : draw(d, raises)

Spec == Init /\ [][Next]_vars

\* the same operator on the assets whose faces are tagged 0 or 1, with the
\* first hit test after every view-distance change remembered
ProbeStart ==
    /\ asset \in {AssetMesh(t) : t \in [1 .. NumFaces -> {0, 1}]}
    /\ probe = NoProbe(TRUE)
    /\ Blank

SpecProbe == ProbeStart /\ [][Next]_vars

\* ray_from_mouse called on the operator's mesh with the flags given, as
\* its signature allows (drawing.py 111-131)
hit_test(x, face_id, face_map) ==
    /\ phase \in {"init", "running"}
    /\ LET self == Get(workplanes_mesh)
           hit == ray_from_mouse(self, x, face_id, face_map)
       IN /\ workplanes_mesh' = Some(hit.self)
          /\ last' = Call("ray_from_mouse", None, None, None,
                          Some(_ray_from_screen(self, x).result), Some(hit.result))
    /\ UNCHANGED <<asset, meshes, meshes_before, draw_handlers, phase, mouse_xy, result,
                   highlight_batch>>
    /\ UNCHANGED viewport_vars
    /\ UNCHANGED legacy_vars
    /\ UNCHANGED geo_vars

HoverNext ==
    \/ __init__
    \/ invoke
    \/ \E x \in Cursors, face_id \in BOOLEAN, face_map \in BOOLEAN : hit_test(x, face_id, face_map)
    \/ \E d \in ViewDistances : draw(d, FALSE)

SpecHover == Start /\ [][HoverNext]_vars

(***************************************************************************)
(* src/mesh_generation.py                                                  *)
(***************************************************************************)
\* DrawingMesh(bm, double_sided, use_bvh): __post_init__ builds the BVH
\* from the triangulated mesh before the back faces are added
DrawingMesh(bm, double_sided, use_bvh) ==
    [bm |-> post_init(bm, double_sided),
     double_sided |-> double_sided,
     bvh_tree |-> IF use_bvh THEN Some(bvh_of(triangulate(bm))) ELSE None,
     use_bvh |-> use_bvh,
     base_batch |-> None,
     shader |-> None]

DrawingMesh_shader(self) ==
    IF self.shader # None THEN self
    ELSE [self EXCEPT !.shader = Some("3D_UNIFORM_COLOR")]

DrawingMesh_points_and_faces(self, face_filter) == points_and_faces(self.bm, face_filter)

DrawingMesh_base_batch(self) ==
    IF self.base_batch # None THEN self
    ELSE LET s1 == DrawingMesh_shader(self)
         IN [s1 EXCEPT !.base_batch =
                Some(batch_for_shader(DrawingMesh_points_and_faces(s1, None)))]

DrawingMesh_highlight_batch(self, faces) ==
    batch_for_shader(DrawingMesh_points_and_faces(self, Some(faces)))

DrawingMesh_ray_from_screen(self, mouse_xy_) == ray_cast(Get(self.bvh_tree), mouse_xy_)

DrawingMesh_face_map_lookup(self, face_id) == face_map_lookup(self.bm, face_id)

\* a generator: the faces it has yet to yield.  Iterating it to the end
\* leaves the same generator object, exhausted.
DrawingMesh_faces_by_map_id(self, face_map_id) == faces_by_map_id(self.bm, face_map_id)
Exhausted == <<>>

\* DrawingMesh.draw: the mesh after the call, the highlight batch drawn
\* (None when operator.highlight_faces is None) and what is left of
\* operator.highlight_faces after zip has iterated it
DrawingMesh_draw(self, highlight_faces_) ==
    LET s1 == DrawingMesh_base_batch(DrawingMesh_shader(self))
    IN IF highlight_faces_ = None
       THEN [self |-> s1, batch |-> None, highlight_faces |-> None]
       ELSE [self |-> s1,
             batch |-> Some(DrawingMesh_highlight_batch(s1, Get(highlight_faces_))),
             highlight_faces |-> Some(Exhausted)]

(***************************************************************************)
(* src/debug_operators.py                                                  *)
(***************************************************************************)
legacy__init__ ==
    /\ phase = "new"
    /\ LET loaded == load_as_bmesh(meshes, asset)
       IN /\ meshes_before' = Some(meshes)
          /\ meshes' = loaded.store
          /\ workplanes_mesh' = Some(DrawingMesh(loaded.bm, FALSE, TRUE))
    /\ handle' = None
    /\ mouse_xy' = None
    /\ highlight_faces' = None
    /\ active_face_map' = None
    /\ phase' = "init"
    /\ last' = Call("__init__", None, None, None, None, None)
    /\ UNCHANGED <<asset, draw_handlers, result, highlight_batch>>
    /\ UNCHANGED viewport_vars
    /\ UNCHANGED geo_vars

legacy_invoke ==
    /\ phase = "init"
    /\ handle' = Some(Handle)
    /\ draw_handlers' = draw_handlers \cup {Handle}
    /\ phase' = "running"
    /\ last' = Call("invoke", None, Some("RUNNING_MODAL"), None, None, None)
    /\ UNCHANGED <<asset, meshes, meshes_before, workplanes_mesh, mouse_xy,
                   highlight_faces, active_face_map, result, highlight_batch>>
    /\ UNCHANGED viewport_vars
    /\ UNCHANGED geo_vars

legacy_rollover_detect(self, mouse_xy_) ==
    LET ray_result == DrawingMesh_ray_from_screen(self, mouse_xy_)
        face_map_id == DrawingMesh_face_map_lookup(self, Get(ray_result.index))
    IN IF ~RaycastFailed(ray_result)
       THEN [ray |-> ray_result,
             active_face_map |-> Some(face_map_id),
             highlight_faces |-> Some(DrawingMesh_faces_by_map_id(self, face_map_id))]
       ELSE [ray |-> ray_result, active_face_map |-> None, highlight_faces |-> None]

legacy_execute(active_face_map_) ==
    LET id == Get(active_face_map_)
    IN IF id \in DOMAIN workplane_face_maps THEN Some(workplane_face_maps[id]) ELSE None

legacy_modal(type, x) ==
    /\ phase = "running"
    /\ IF type = "MOUSEMOVE"
       THEN LET det == legacy_rollover_detect(Get(workplanes_mesh), x)
            IN /\ mouse_xy' = Some(x)
               /\ active_face_map' = det.active_face_map
               /\ highlight_faces' = det.highlight_faces
               /\ last' = Call("modal", Some(type), Some("RUNNING_MODAL"), None,
                               Some(det.ray), None)
               /\ UNCHANGED <<draw_handlers, phase, result>>
       ELSE IF type = "LEFTMOUSE" /\ active_face_map # None
       THEN LET name == legacy_execute(active_face_map)
            IN /\ mouse_xy' = Some(x)
               /\ draw_handlers' = draw_handlers \ {Get(handle)}
               /\ IF name # None
                  THEN /\ result' = name
                       /\ phase' = "finished"
                       /\ last' = Call("modal", Some(type), Some("FINISHED"), None, None, None)
                  ELSE /\ result' = result
                       /\ phase' = "raised"
                       /\ last' = Call("modal", Some(type), None, Some("KeyError"), None, None)
               /\ UNCHANGED <<active_face_map, highlight_faces>>
       ELSE IF type \in {"RIGHTMOUSE", "ESC"}
       THEN /\ draw_handlers' = draw_handlers \ {Get(handle)}
            /\ phase' = "cancelled"
            /\ last' = Call("modal", Some(type), Some("CANCELLED"), None, None, None)
            /\ UNCHANGED <<mouse_xy, active_face_map, highlight_faces, result>>
       ELSE /\ last' = Call("modal", Some(type), Some("PASS_THROUGH"), None, None, None)
            /\ UNCHANGED <<draw_handlers, phase, mouse_xy, active_face_map,
                           highlight_faces, result>>
    /\ UNCHANGED <<asset, meshes, meshes_before, workplanes_mesh, handle, highlight_batch>>
    /\ UNCHANGED viewport_vars
    /\ UNCHANGED geo_vars

legacy_draw ==
    /\ handle # None
    /\ Get(handle) \in draw_handlers
    /\ LET drawn == DrawingMesh_draw(Get(workplanes_mesh), highlight_faces)
       IN /\ workplanes_mesh' = Some(drawn.self)
          /\ highlight_batch' = drawn.batch
          /\ highlight_faces' = drawn.highlight_faces
    /\ last' = Call("draw", None, None, None, None, None)
    /\ UNCHANGED <<asset, meshes, meshes_before, draw_handlers, phase, handle,
                   mouse_xy, active_face_map, result>>
    /\ UNCHANGED viewport_vars
    /\ UNCHANGED geo_vars

LegacyNext ==
    \/ legacy__init__
    \/ legacy_invoke
    \/ \E type \in EventTypes, x \in Cursors : legacy_modal(type, x)
    \/ legacy_draw

SpecLegacy == Start /\ [][LegacyNext]_vars

(***************************************************************************)
(* The functions of src/viewport_drawing/geo.py called on their own        *)
(***************************************************************************)
\* the vertices before the first vertex of face k, for faces of the sizes given
RECURSIVE Offset(_, _)
Offset(shapes, k) == IF k = 1 THEN 0 ELSE Offset(shapes, k - 1) + shapes[k - 1]

\* a mesh of detached faces: face k is a triangle or a quad (shapes[k]) on
\* its own vertices and carries tags[k]; vertex i lies at coordinate i
GeoMesh(shapes, tags) ==
    [verts |-> [i \in 1 .. Offset(shapes, Len(shapes) + 1) |-> Fixed(i)],
     faces |-> [k \in 1 .. Len(shapes) |->
                   [verts |-> [j \in 1 .. shapes[k] |-> Offset(shapes, k) + j],
                    face_map |-> tags[k]]]]

FaceSizes == {3, 4}
GeoAssets ==
    UNION {{GeoMesh(sh, t) : sh \in [1 .. n -> FaceSizes], t \in [1 .. n -> Tags]} :
              n \in 0 .. NumFaces}

\* the sides of a face, each as the set of its two vertices
face_edges(face) ==
    [j \in 1 .. Len(face.verts) |->
        {face.verts[j], face.verts[(j % Len(face.verts)) + 1]}]

\* bm.edges: every side of every face, once, in the order the faces made them
bm_edges(bm) ==
    LET all == Concat([k \in 1 .. Len(bm.faces) |-> face_edges(bm.faces[k])])
        first == SelectSeq([p \in 1 .. Len(all) |-> p],
                           LAMBDA p : \A q \in 1 .. p - 1 : all[q] # all[p])
    IN [n \in 1 .. Len(first) |-> all[first[n]]]

\* BMEdge.is_boundary: the edge belongs to exactly one face
is_boundary(bm, edge) ==
    Cardinality({k \in 1 .. Len(bm.faces) :
                    \E j \in 1 .. Len(bm.faces[k].verts) : face_edges(bm.faces[k])[j] = edge}) = 1

\* zip(edges, count(step=2)) pairs each edge with a number, and the loop
\* names the edge co_index and the number edge: with no boundary edge the
\* loop body never runs, otherwise its first statement reads .verts of an int
bounding_points_and_edges(bm) ==
    LET edges == SelectSeq(bm_edges(bm), LAMBDA edge : is_boundary(bm, edge))
    IN IF edges = <<>>
       THEN GeoCall("bounding_points_and_edges", None, <<>>, <<>>, <<>>, None)
       ELSE GeoCall("bounding_points_and_edges", None, <<>>, <<>>, <<>>,
                    Some("AttributeError"))

\* every variable of the two operators
operator_vars == <<meshes, meshes_before, draw_handlers, phase, workplanes_mesh,
                   mouse_xy, result, highlight_batch, last>>

\* the group ids the functions of geo.py are asked about: every tag, and one
\* that no face carries
GroupIds == Tags \cup {MaxTag + 1}

\* the functions of geo.py never touch bpy.data
GeoStart ==
    /\ asset \in GeoAssets
    /\ probe = NoProbe(FALSE)
    /\ Blank
    /\ meshes = {}

\* DrawnMesh.__post_init__ on the mesh
geo_post_init(double_sided) ==
    /\ geo_bm = None
    /\ geo_bm' = Some(post_init(asset, double_sided))
    /\ geo_out' = GeoCall("__post_init__", Some(double_sided),
                          post_init(asset, double_sided).faces, <<>>, <<>>, None)
    /\ UNCHANGED <<asset, operator_vars, viewport_vars, legacy_vars>>

\* faces_by_map_id raising for a group that no face carries
geo_faces_by_map_id_strict(face_map_id) ==
    /\ geo_bm # None
    /\ geo_out' = LET faces == faces_by_map_id(Get(geo_bm), face_map_id)
                  IN GeoCall("faces_by_map_id", Some(face_map_id), faces, <<>>, <<>>,
                             IF faces = <<>> THEN Some("KeyError") ELSE None)
    /\ UNCHANGED <<asset, geo_bm, operator_vars, viewport_vars, legacy_vars>>

\* list(faces_by_map_id(bm, face_map_id))
geo_faces_by_map_id(face_map_id) ==
    /\ geo_bm # None
    /\ geo_out' = GeoCall("faces_by_map_id", Some(face_map_id),
                          faces_by_map_id(Get(geo_bm), face_map_id), <<>>, <<>>, None)
    /\ UNCHANGED <<asset, geo_bm, operator_vars, viewport_vars, legacy_vars>>

\* points_and_faces(bm, faces_by_map_id(bm, face_map_id))
geo_points_and_faces(face_map_id) ==
    /\ geo_bm # None
    /\ geo_out' = LET faces == faces_by_map_id(Get(geo_bm), face_map_id)
                      out == points_and_faces(Get(geo_bm), Some(faces))
                  IN GeoCall("points_and_faces", Some(face_map_id), faces,
                             out.coords, out.indices, None)
    /\ UNCHANGED <<asset, geo_bm, operator_vars, viewport_vars, legacy_vars>>

\* bounding_points_and_edges(bm)
geo_bounding_points_and_edges ==
    /\ geo_bm # None
    /\ geo_out' = bounding_points_and_edges(Get(geo_bm))
    /\ UNCHANGED <<asset, geo_bm, operator_vars, viewport_vars, legacy_vars>>

GeoNext ==
    \/ \E double_sided \in BOOLEAN : geo_post_init(double_sided)
    \/ \E g \in GroupIds : geo_faces_by_map_id(g)
    \/ \E g \in GroupIds : geo_points_and_faces(g)
    \/ geo_bounding_points_and_edges

SpecGeo == GeoStart /\ [][GeoNext]_vars

(***************************************************************************)
(* Properties                                                              *)
(***************************************************************************)
\* C1: every cached derived value of DrawnMesh (_xformed_bm, _bvh,
\* _passive_batch) was built with the current scale factor.
C1_CachesAtCurrentScale ==
    workplanes_mesh # None =>
        LET self == Get(workplanes_mesh)
            current == xformed_bm_of(self.bm, self.scaler)
        IN /\ self.xformed_bm # None => Get(self.xformed_bm) = current
           /\ self.bvh # None => Get(self.bvh) = bvh_of(current)
           /\ self.passive_batch # None =>
                 Get(self.passive_batch) = batch_for_shader(points_and_faces(current, None))

\* C2: after draw has run with view distance d the scale factor is the
\* minimum scale for d < 2 * minimum scale and d / 2 from there on.
C2_ScaleClamp ==
    last.call = "draw" =>
        LET self == Get(workplanes_mesh)
            d == self.view_distance
        IN self.scaler = IF d < Fixed(2 * MinimumScale) THEN Fixed(MinimumScale) ELSE Half(d)

\* C3: once the session has ended by confirm or cancel, the original mesh,
\* the transformed copy, the spatial index and the GPU batch are released.
C3_ReleasedAtEnd ==
    phase \in {"finished", "cancelled"} =>
        LET self == Get(workplanes_mesh)
        IN /\ ~self.bm.is_valid
           /\ self.xformed_bm = None
           /\ self.bvh = None
           /\ self.passive_batch = None

\* C4 as claimed: every value modal returns is RUNNING_MODAL, FINISHED or
\* CANCELLED.
C4_ThreeOutcomes ==
    (last.call = "modal" /\ last.ret # None) =>
        Get(last.ret) \in {"RUNNING_MODAL", "FINISHED", "CANCELLED"}

\* C4 as amended: every value modal returns is RUNNING_MODAL (exactly for a
\* pointer-move), FINISHED (only for LEFTMOUSE with a hovered group),
\* CANCELLED (exactly for RIGHTMOUSE and ESC) or PASS_THROUGH (exactly for
\* LEFTMOUSE with nothing hovered and for every other event type).
C4_FourOutcomes ==
    (last.call = "modal" /\ last.ret # None) =>
        LET ret == Get(last.ret)
            type == Get(last.type)
        IN /\ ret \in {"RUNNING_MODAL", "FINISHED", "CANCELLED", "PASS_THROUGH"}
           /\ ret = "RUNNING_MODAL" <=> type = "MOUSEMOVE"
           /\ ret = "FINISHED" <=> (type = "LEFTMOUSE" /\ active_face_maps # None)
           /\ ret = "CANCELLED" <=> type \in {"RIGHTMOUSE", "ESC"}
           /\ ret = "PASS_THROUGH" <=>
                 \/ type = "LEFTMOUSE" /\ active_face_maps = None
                 \/ type \notin {"MOUSEMOVE", "LEFTMOUSE", "RIGHTMOUSE", "ESC"}

\* a LEFTMOUSE with nothing hovered has been passed through
C4_Witness ==
    /\ last.call = "modal"
    /\ last.type = Some("LEFTMOUSE")
    /\ last.ret = Some("PASS_THROUGH")
    /\ active_face_maps = None

\* C5: a confirm while group g of {0, 1, 2} is hovered finishes the session
\* with the workplane name of g: 0 is xz, 1 is xy, 2 is yz.
C5_ConfirmResult ==
    (/\ last.call = "modal"
     /\ last.type = Some("LEFTMOUSE")
     /\ active_face_maps # None
     /\ Get(active_face_maps)[1] \in {0, 1, 2}) =>
        LET g == Get(active_face_maps)[1]
        IN /\ phase = "finished"
           /\ last.ret = Some("FINISHED")
           /\ result = Some(IF g = 0 THEN "xz" ELSE IF g = 1 THEN "xy" ELSE "yz")

\* group 1 was hovered at a confirm and the session finished with "xy"
C5_Witness ==
    /\ phase = "finished"
    /\ last.type = Some("LEFTMOUSE")
    /\ active_face_maps = Some(<<1>>)
    /\ result = Some("xy")

\* C6: when the raycast of a pointer-move misses, the hover result is the
\* empty one (failed, every field None), the operator holds no hover, and
\* modal returns normally.
C6_MissIsNoHover ==
    (last.ray # None /\ RaycastFailed(Get(last.ray))) =>
        /\ last.hover = Some(MouseHoverResult(None, None))
        /\ HoverFailed(Get(last.hover))
        /\ active_face_maps = None
        /\ last.exc = None
        /\ last.ret = Some("RUNNING_MODAL")

\* a pointer-move missed the mesh after an earlier one had hit it
C6_Witness ==
    /\ last.ray # None
    /\ RaycastFailed(Get(last.ray))
    /\ Get(workplanes_mesh).bvh # None
    /\ Get(workplanes_mesh).passive_batch # None

\* C8: load_as_bmesh leaves bpy.data.meshes as it found it.
C8_StoreUnchanged ==
    meshes_before # None => meshes = Get(meshes_before)

\* C9: no exception leaves the modal handling of a pointer-move or the
\* draw callback.
C9_NoErrorEscapes ==
    (last.call = "draw" \/ (last.call = "modal" /\ last.type = Some("MOUSEMOVE"))) =>
        last.exc = None

\* C10: the BVH is built at most once between two view-distance changes
\* seen by draw, and at most once more than there were such changes.
C10_BvhBuilds ==
    workplanes_mesh # None =>
        LET self == Get(workplanes_mesh)
        IN /\ self.builds_since_change <= 1
           /\ self.bvh_builds <= 1 + self.vd_changes

\* the BVH was rebuilt after a view-distance change and then queried again
C10_Witness ==
    /\ workplanes_mesh # None
    /\ Get(workplanes_mesh).bvh_builds = 2
    /\ Get(workplanes_mesh).vd_changes = 1
    /\ last.call = "modal"
    /\ last.type = Some("MOUSEMOVE")
    /\ last.ray # None

\* C7: at every draw call of DrawingMesh the highlight batch is built from
\* exactly the faces whose tag is the group the operator holds as hovered,
\* and no highlight batch is built when nothing is hovered.
C7_HighlightIsHoveredGroup ==
    (last.call = "draw" /\ workplanes_mesh # None) =>
        LET self == Get(workplanes_mesh)
        IN highlight_batch =
              IF active_face_map = None THEN None
              ELSE Some(batch_for_shader(points_and_faces(self.bm,
                          Some(faces_by_map_id(self.bm, Get(active_face_map))))))

\* C11: a hit test at the cursor position of an earlier one, with no
\* view-distance change seen by draw in between, returns the hover result
\* the earlier one returned.
C11_HitTestIdempotent ==
    (/\ probe.on
     /\ last.call = "modal"
     /\ last.hover # None
     /\ probe.xy = mouse_xy) =>
        last.hover = probe.hover

\* the position of the first hit test was tested again after draw calls and
\* a hit test elsewhere, and it hit a face
C11_Witness ==
    /\ probe.repeated
    /\ last.call = "modal"
    /\ last.hover # None
    /\ probe.xy = mouse_xy
    /\ ~HoverFailed(Get(last.hover))
    /\ Get(workplanes_mesh).passive_batch # None
    /\ Get(workplanes_mesh).vd_changes > 0

\* C12: the highlight a draw call draws is the one of the hover state the
\* latest pointer-move before it produced, and none when that pointer-move
\* produced no hover; until the operator ends the operator holds exactly
\* that hover state.
C12_DrawSeesLatestMove ==
    /\ phase = "running" => active_face_maps = moved
    /\ (last.call = "draw" /\ last.exc = None) =>
          highlight_batch = draw_active(Get(workplanes_mesh), moved).batch

\* a draw call drew the highlight of a group hovered by a pointer-move that
\* followed an earlier draw call
C12_Witness ==
    /\ last.call = "draw"
    /\ last.exc = None
    /\ moved # None
    /\ highlight_batch # None
    /\ Get(workplanes_mesh).vd_changes > 0
    /\ Get(workplanes_mesh).bvh_builds > 0

\* C13: every face faces_by_map_id yields for a group id is looked up by
\* face_map_lookup as that id, and over the ids the faces of the mesh carry
\* every face of the mesh is yielded exactly once.
C13_GroupsPartitionFaces ==
    geo_bm # None =>
        LET bm == Get(geo_bm)
            known == {face_map_lookup(bm, i) : i \in 1 .. Len(bm.faces)}
            yielded == [g \in known |-> faces_by_map_id(bm, g)]
            Yields(i) == {gk \in known \X (1 .. Len(bm.faces)) :
                             /\ gk[2] <= Len(yielded[gk[1]])
                             /\ yielded[gk[1]][gk[2]] = bm.faces[i]}
        IN /\ geo_out.op = "faces_by_map_id" =>
                 \A k \in 1 .. Len(geo_out.faces) :
                     \E i \in 1 .. Len(bm.faces) :
                         /\ bm.faces[i] = geo_out.faces[k]
                         /\ face_map_lookup(bm, i) = Get(geo_out.arg)
           /\ \A i \in 1 .. Len(bm.faces) : Cardinality(Yields(i)) = 1

\* a group of two or more faces was yielded from a mesh that carries
\* several groups
C13_Witness ==
    /\ geo_bm # None
    /\ geo_out.op = "faces_by_map_id"
    /\ Len(geo_out.faces) >= 2
    /\ Len(geo_out.faces) < Len(Get(geo_bm).faces)
    /\ \E i, j \in 1 .. Len(Get(geo_bm).faces) :
           face_map_lookup(Get(geo_bm), i) # face_map_lookup(Get(geo_bm), j)

\* C14: the mesh built with double_sided set has twice as many faces as its
\* triangulation has, and the mesh built without it has as many.
C14_DoubleSidedDoubles ==
    geo_out.op = "__post_init__" =>
        Len(Get(geo_bm).faces) =
            (IF Get(geo_out.arg) THEN 2 ELSE 1) * Len(triangulate(asset).faces)

\* a mesh of a quad and another face was built double sided
C14_Witness ==
    /\ geo_out.op = "__post_init__"
    /\ geo_out.arg = Some(TRUE)
    /\ Len(asset.faces) >= 2
    /\ \E k \in 1 .. Len(asset.faces) : Len(asset.faces[k].verts) = 4
    /\ Len(Get(geo_bm).faces) > Len(asset.faces)

\* C15: faces_by_map_id for a group id that no face of the mesh carries
\* yields no face and raises nothing.
C15_AbsentGroupIsEmpty ==
    (/\ geo_out.op = "faces_by_map_id"
     /\ \A i \in 1 .. Len(Get(geo_bm).faces) :
            face_map_lookup(Get(geo_bm), i) # Get(geo_out.arg)) =>
        /\ geo_out.faces = <<>>
        /\ geo_out.exc = None

\* a mesh with faces was asked for a group id none of them carries
C15_Witness ==
    /\ geo_out.op = "faces_by_map_id"
    /\ Len(Get(geo_bm).faces) >= 2
    /\ \A i \in 1 .. Len(Get(geo_bm).faces) :
           face_map_lookup(Get(geo_bm), i) # Get(geo_out.arg)
    /\ geo_out.faces = <<>>

\* C16: bounding_points_and_edges raises nothing and returns, for the n
\* boundary edges of the mesh, 2n coordinates and n pairs, the k-th pair
\* being (2k, 2k+1) (k from 0) and indexing the two ends of the k-th edge.
C16_BoundaryEdgePairs ==
    geo_out.op = "bounding_points_and_edges" =>
        LET bm == Get(geo_bm)
            edges == SelectSeq(bm_edges(bm), LAMBDA edge : is_boundary(bm, edge))
            n == Len(edges)
        IN /\ geo_out.exc = None
           /\ Len(geo_out.coords) = 2 * n
           /\ Len(geo_out.indices) = n
           /\ \A k \in 1 .. n :
                 /\ geo_out.indices[k] = <<2 * (k - 1), 2 * (k - 1) + 1>>
                 /\ {geo_out.coords[2 * k - 1], geo_out.coords[2 * k]} =
                        {bm.verts[v] : v \in edges[k]}

\* C19: points_and_faces with a filter of n triangles returns 3n coordinates
\* and n triples, the k-th triple being (3k, 3k+1, 3k+2) (k from 0) and the
\* coordinate at 3k+j the position of the j-th vertex of the k-th face.
C19_FilteredTriples ==
    geo_out.op = "points_and_faces" =>
        LET bm == Get(geo_bm)
            n == Len(geo_out.faces)
        IN /\ Len(geo_out.coords) = 3 * n
           /\ Len(geo_out.indices) = n
           /\ \A k \in 1 .. n :
                 /\ geo_out.indices[k] = <<3 * (k - 1), 3 * (k - 1) + 1, 3 * (k - 1) + 2>>
                 /\ \A j \in 1 .. 3 :
                       geo_out.coords[3 * (k - 1) + j] =
                           bm.verts[geo_out.faces[k].verts[j]]

\* a filter of several faces, not all the faces of the mesh and not its
\* first ones, was converted
C19_Witness ==
    /\ geo_out.op = "points_and_faces"
    /\ Len(geo_out.faces) >= 2
    /\ Len(geo_out.faces) < Len(Get(geo_bm).faces)
    /\ geo_out.faces[1] # Get(geo_bm).faces[1]

\* C17: whichever of _xformed_bm, _passive_batch and _bvh are cached when
\* _clear_cache is called, none of them is cached when it returns.
C17_ClearCacheClearsAll ==
    workplanes_mesh # None =>
        LET after == _clear_cache(Get(workplanes_mesh))
        IN /\ after.xformed_bm = None
           /\ after.passive_batch = None
           /\ after.bvh = None

\* C18 as claimed: every vertex of the transformed mesh is the vertex of
\* the mesh multiplied by max(minimumScale, viewDistance / 2).
C18_ScaleFactorApplied ==
    (workplanes_mesh # None /\ Get(workplanes_mesh).xformed_bm # None) =>
        LET self == Get(workplanes_mesh)
        IN \A i \in 1 .. Len(self.bm.verts) :
               Get(self.xformed_bm).verts[i] = Mul(self.bm.verts[i], Scale(self.view_distance))

\* C18: every vertex of the transformed mesh is the vertex of the mesh
\* multiplied by half of the scale factor DrawnMesh.scaler.
C18_HalfScalerApplied ==
    (workplanes_mesh # None /\ Get(workplanes_mesh).xformed_bm # None) =>
        LET self == Get(workplanes_mesh)
        IN /\ Len(Get(self.xformed_bm).verts) = Len(self.bm.verts)
           /\ \A i \in 1 .. Len(self.bm.verts) :
                 2 * Get(self.xformed_bm).verts[i] = Mul(self.bm.verts[i], self.scaler)

\* the transformed mesh was rebuilt after draw derived a scale factor above
\* the minimum from the view distance
C18_Witness ==
    /\ workplanes_mesh # None
    /\ Get(workplanes_mesh).xformed_bm # None
    /\ Get(workplanes_mesh).vd_changes > 0
    /\ Get(workplanes_mesh).scaler > Fixed(MinimumScale)
    /\ Get(workplanes_mesh).scaler = Half(Get(workplanes_mesh).view_distance)
    /\ last.call = "draw"

\* C20: the draw handler is registered exactly while the session runs; it
\* is removed only by a modal call that returns FINISHED or CANCELLED, and
\* a modal call that returns RUNNING_MODAL or PASS_THROUGH leaves it
\* registered.
C20_HandlerLifecycle ==
    /\ (draw_handle # None /\ Get(draw_handle) \in draw_handlers) <=> phase = "running"
    /\ (draw_handle # None /\ Get(draw_handle) \notin draw_handlers) =>
           /\ last.call = "modal"
           /\ last.ret \in {Some("FINISHED"), Some("CANCELLED")}
    /\ (last.call = "modal" /\ last.ret \in {Some("RUNNING_MODAL"), Some("PASS_THROUGH")}) =>
           Get(draw_handle) \in draw_handlers

\* C21: the group a confirm selects is the group of the face that a hit
\* test at the cursor position finds in the mesh at the scale draw draws.
C21_ConfirmNotStale ==
    (last.call = "modal" /\ last.ret = Some("FINISHED")) =>
        LET self == Get(workplanes_mesh)
            drawn == xformed_bm_of(self.bm, self.scaler)
            hit == ray_cast(bvh_of(drawn), Get(mouse_xy))
        IN /\ ~RaycastFailed(hit)
           /\ active_face_maps = Some(<<face_map_lookup(drawn, Get(hit.index))>>)

\* C22: a LEFTMOUSE event delivered while a group is hovered ends with
\* FINISHED and a result name, whatever tag the hovered face carries, and
\* the draw handler is never gone from a session that neither finished nor
\* was cancelled.
C22_ConfirmFinishes ==
    /\ (/\ last.call = "modal"
        /\ last.type = Some("LEFTMOUSE")
        /\ last.ret # Some("PASS_THROUGH")) =>
           /\ last.ret = Some("FINISHED")
           /\ last.exc = None
           /\ result # None
    /\ (draw_handle # None /\ Get(draw_handle) \notin draw_handlers) =>
           phase \in {"finished", "cancelled"}

\* C23: the hover result of a hit test is failed exactly when its raycast
\* missed, whichever of the flags face_id and face_map were set.
C23_FailedIffMissed ==
    (last.hover # None /\ last.ray # None) =>
        (HoverFailed(Get(last.hover)) <=> RaycastFailed(Get(last.ray)))

\* C24: the cached transformed mesh has not been freed, no transformed
\* copy was freed twice, and no hit test or draw call read a freed copy.
C24_NoFreedMeshUsed ==
    workplanes_mesh # None =>
        LET self == Get(workplanes_mesh)
        IN /\ self.xformed_bm # None => Get(self.xformed_bm).is_valid
           /\ ~self.freed_twice
           /\ ~self.used_freed

\* two copies were freed, and a hit test and a draw call with a highlight
\* read the copy built after them
C24_Witness ==
    /\ workplanes_mesh # None
    /\ Get(workplanes_mesh).frees >= 2
    /\ Get(workplanes_mesh).xformed_bm # None
    /\ Get(workplanes_mesh).bvh_builds >= 2
    /\ last.call = "draw"
    /\ last.exc = None
    /\ highlight_batch # None

====
